---- MODULE Spec2Model ----
(***************************************************************************)
(* A model of bzip2/sais.c: the in-place SA-IS suffix array construction   *)
(* computeSA and its helpers.  Memory is modelled as a list of blocks      *)
(* (the text, the caller's SA buffer, and one block per malloc); a pointer *)
(* is a block and an offset, so that C, B, D and the reduced string alias  *)
(* SA, the heap or each other exactly as they do in the code.              *)
(***************************************************************************)
EXTENDS Integers, Sequences, FiniteSets, TLC

VARIABLES
  inp,     \* the arguments n, k, cs of the outermost call (T is block TXT)
  mem,     \* the memory: a sequence of blocks, each a function 0..size-1 -> value
  heap,    \* per block: "static", "live", "freed" or "corrupt"
  stack,   \* the activation records of computeSA, outermost first
  rv,      \* the value returned by the last computeSA that returned
  chk,     \* which of the checked conditions have held so far in this call
  outs,    \* per slack fs of a finished outermost call: what it returned
  steps    \* how many steps the outermost call has taken

vars == <<inp, mem, heap, stack, rv, chk, outs, steps>>

-----------------------------------------------------------------------------
(* Program constants. *)

MINBUCKETSIZE == 256

SAIS_LMSSORT2_LIMIT == 1073741823

IntSize == 4

(* Bounds of the model. *)

MaxLen == 7

MaxShort == 5

-----------------------------------------------------------------------------
(* Memory. *)

\* The content of memory that has been allocated and never written.
Undef == "undef"

TXT == 1

SAB == 2

Ptr(b, o) == [blk |-> b, off |-> o]

NULL == Ptr(0, 0)

SAp(o) == Ptr(SAB, o)

Rd(m, p, i) == m[p.blk][p.off + i]

\* A write outside its block leaves no memory to go on with.
Wr(m, p, i, v) ==
  IF (p.off + i) \in DOMAIN m[p.blk]
  THEN [m EXCEPT ![p.blk][p.off + i] = v]
  ELSE "write out of bounds"

FreshBlock(size) == [i \in 0 .. size - 1 |-> Undef]

\* malloc: when it succeeds (ok), a new block of size ints, contents undefined;
\* when it fails, NULL, and the failure is recorded as a block that never was.
Malloc(h, size, ok) ==
  IF ok
  THEN [mem  |-> Append(h.mem, FreshBlock(size)),
        heap |-> Append(h.heap, "live"),
        p    |-> Ptr(Len(h.mem) + 1, 0)]
  ELSE [mem  |-> Append(h.mem, <<>>),
        heap |-> Append(h.heap, "failed"),
        p    |-> NULL]

\* A free that is forgotten.
Free_Leak(h, p) == h

\* free: the block is gone; freeing anything but a live heap block is an error.
Free(h, p) ==
  [mem  |-> [h.mem EXCEPT ![p.blk] = <<>>],
   heap |-> [h.heap EXCEPT ![p.blk] = IF @ = "live" THEN "freed" ELSE "corrupt"]]

FreeIf(cond, h, p) == IF cond THEN Free(h, p) ELSE h

\* flags & bit, for bit a power of two.
Has(flags, bit) == (flags \div bit) % 2 = 1

\* A flag that is not set.
Or_Lost(flags, bit) == flags

\* flags |= bit.
Or(flags, bit) == IF Has(flags, bit) THEN flags ELSE flags + bit

\* ~j in two's complement.
Not(j) == 0 - j - 1

\* chr(a): an int when cs = sizeof(int), otherwise an unsigned char.
Chr(m, T, cs, a) == IF cs = IntSize THEN Rd(m, T, a) ELSE Rd(m, T, a) % 256

-----------------------------------------------------------------------------
(* Loops.  for (i = lo; i < hi; ++i) st = Body(i, st), and the same          *)
(* downwards; the range is split in halves so that long loops need only a  *)
(* shallow evaluation, and the state (a record or the memory, never empty)  *)
(* is evaluated before each part is entered.                               *)

RECURSIVE ForUp(_, _, _, _)
ForUp(Body(_, _), lo, hi, st) ==
  IF (hi <= lo) \/ (DOMAIN st = {}) THEN st
  ELSE IF hi = lo + 1 THEN Body(lo, st)
  ELSE LET mid == (lo + hi) \div 2
           s   == ForUp(Body, lo, mid, st)
       IN  ForUp(Body, mid, hi, s)

\* for (i = hi - 1; lo <= i; --i) st = Body(i, st)
RECURSIVE ForDown(_, _, _, _)
ForDown(Body(_, _), lo, hi, st) ==
  IF (hi <= lo) \/ (DOMAIN st = {}) THEN st
  ELSE IF hi = lo + 1 THEN Body(lo, st)
  ELSE LET mid == (lo + hi) \div 2
           s   == ForDown(Body, mid, hi, st)
       IN  ForDown(Body, lo, mid, s)

\* x = v; In(x): v is evaluated once, and In finds its value in x.
Let(v, In(_)) == In(v)

-----------------------------------------------------------------------------
(* getCounts and getBuckets. *)

GetCounts(m, T, C, n, k, cs) ==
  LET z == ForUp(LAMBDA i, s : Wr(s, C, i, 0), 0, k, m)
  IN  ForUp(LAMBDA i, s : Wr(s, C, Chr(s, T, cs, i), Rd(s, C, Chr(s, T, cs, i)) + 1),
            0, n, z)

GetBuckets(m, C, B, k, end) ==
  ForUp(LAMBDA i, s :
          LET sum == s.sum + Rd(s.mem, C, i)
          IN  [mem |-> Wr(s.mem, B, i, IF end THEN sum ELSE sum - Rd(s.mem, C, i)),
               sum |-> sum],
        0, k, [mem |-> m, sum |-> 0]).mem

\* What the buckets of T are, counted from the text itself: for each symbol c
\* that occurs, cnt[c] is the number of i in [0, n) with T[i] = c and lo[c] the
\* number with T[i] < c.
Buckets(m, T, n, cs) ==
  LET used == {Chr(m, T, cs, i) : i \in 0 .. n - 1}
  IN  [cnt |-> [c \in used |-> Cardinality({i \in 0 .. n - 1 : Chr(m, T, cs, i) = c})],
       lo  |-> [c \in used |-> Cardinality({i \in 0 .. n - 1 : Chr(m, T, cs, i) < c})]]

\* C[0..k) is the histogram of the text whose buckets are bk.
IsHistogram(m, C, k, bk) ==
  \A c \in 0 .. k - 1 :
    Rd(m, C, c) = (IF c \in DOMAIN bk.cnt THEN bk.cnt[c] ELSE 0)

-----------------------------------------------------------------------------
(* The right-to-left scan that finds the LMS positions (three copies in    *)
(* the code, differing in what they do at each one).  The do-while loops   *)
(* over --i are one pass over i = n-2 .. 0 whose phase says which of them  *)
(* is running: "L" while chr(i) >= chr(i+1) is awaited to fail, "S" while  *)
(* chr(i) <= chr(i+1) is.  Act(i, c1, u) is the body run when the S loop   *)
(* ends with 0 <= i: position i+1 starts an LMS substring, c1 = chr(i+1).  *)

LMSScan(Act(_, _, _), T, n, cs, u0) ==
  ForDown(LAMBDA i, s :
            LET c0 == Chr(s.u.mem, T, cs, i)
            IN  IF s.ph = "L"
                THEN [ph |-> IF c0 >= s.c THEN "L" ELSE "S", c |-> c0, u |-> s.u]
                ELSE IF c0 <= s.c
                     THEN [ph |-> "S", c |-> c0, u |-> s.u]
                     ELSE [ph |-> "L", c |-> c0, u |-> Act(i, s.c, s.u)],
          0, n - 1, [ph |-> "L", c |-> Chr(u0.mem, T, cs, n - 1), u |-> u0]).u

-----------------------------------------------------------------------------
(* computeSA, lines 364-404: where C and B live, and which LMS sort runs.  *)
(* ok1 and ok2 say whether the first and the second malloc succeed.        *)

\* D is always allocated.
LMSsort2Flags_HeapD(flags, fs, n, k) ==
  IF (n <= SAIS_LMSSORT2_LIMIT) /\ (2 <= (n \div k))
  THEN IF Has(flags, 1)
       THEN flags + 16
       ELSE IF (flags = 0) /\ ((k * 2) <= (fs - k * 2)) THEN flags + 32 ELSE flags
  ELSE flags

LMSsort2Flags(flags, fs, n, k) ==
  IF (n <= SAIS_LMSSORT2_LIMIT) /\ (2 <= (n \div k))
  THEN IF Has(flags, 1)
       THEN flags + (IF (k * 2) <= (fs - k) THEN 32 ELSE 16)
       ELSE IF (flags = 0) /\ ((k * 2) <= (fs - k * 2)) THEN flags + 32 ELSE flags
  ELSE flags

AllocWorkspace(f, h, ok1, ok2) ==
  LET n == f.n
      k == f.k
      fs == f.fs
      fail(hh) == [h |-> [mem |-> hh.mem, heap |-> hh.heap], f |-> f, ret |-> 0 - 2]
      go(hh, C, B, flags) ==
        [h |-> [mem |-> hh.mem, heap |-> hh.heap],
         f |-> [f EXCEPT !.C = C, !.B = B,
                         !.flags = LMSsort2Flags(flags, fs, n, k), !.pc = "stage1"],
         ret |-> 0]
      a == Malloc(h, k, ok1)
      b == Malloc(a, k, ok2)
  IN  IF k <= MINBUCKETSIZE
      THEN IF a.p = NULL THEN fail(a)
           ELSE IF k <= fs
                THEN go(a, a.p, SAp(n + fs - k), 1)
                ELSE IF b.p = NULL THEN fail(Free(b, a.p))
                     ELSE go(b, a.p, b.p, 3)
      ELSE IF k <= fs
      THEN LET C == SAp(n + fs - k)
           IN  IF k <= (fs - k)
               THEN go(h, C, SAp(n + fs - k - k), 0)
               ELSE IF k <= (MINBUCKETSIZE * 4)
                    THEN IF a.p = NULL THEN fail(a) ELSE go(a, C, a.p, 2)
                    ELSE go(h, C, C, 8)
      ELSE IF a.p = NULL THEN fail(a) ELSE go(a, a.p, a.p, 12)

-----------------------------------------------------------------------------
(* computeSA, lines 406-437: Stage 1 up to the placement of the LMS        *)
(* positions.  b = -1 stands for b = &t.                                   *)

\* The LMS position is placed but not counted.
PlaceLMS_NoCount(B, i, c1, u) ==
  LET m1 == IF u.b = 0 - 1 THEN u.mem ELSE Wr(u.mem, SAp(0), u.b, u.j)
      e  == Rd(m1, B, c1) - 1
  IN  [mem |-> Wr(m1, B, c1, e), b |-> e, j |-> i, m |-> u.m]

\* *b = j; b = SA + --B[c1]; j = i; ++m;
PlaceLMS(B, i, c1, u) ==
  LET m1 == IF u.b = 0 - 1 THEN u.mem ELSE Wr(u.mem, SAp(0), u.b, u.j)
      e  == Rd(m1, B, c1) - 1
  IN  [mem |-> Wr(m1, B, c1, e), b |-> e, j |-> i, m |-> u.m + 1]

Stage1(f, m0) ==
  Let(GetCounts(m0, f.T, f.C, f.n, f.k, f.cs), LAMBDA m1 :
  Let(LMSScan(LAMBDA i, c1, v : PlaceLMS(f.B, i, c1, v), f.T, f.n, f.cs,
              [mem |-> ForUp(LAMBDA i, s : Wr(s, SAp(0), i, 0), 0, f.n,
                             GetBuckets(m1, f.C, f.B, f.k, TRUE)),
               b |-> 0 - 1, j |-> f.n, m |-> 0]), LAMBDA u :
    [mem |-> u.mem,
     cok |-> IsHistogram(m1, f.C, f.k, Buckets(m0, f.T, f.n, f.cs)),
     f   |-> [f EXCEPT !.m = u.m, !.b = u.b, !.j = u.j, !.pc = "sort"]]))

-----------------------------------------------------------------------------
(* The induced-sorting scans.  A scan's state s holds the memory, the      *)
(* write cursor b (as b - SA), the character c1 whose bucket b is in, and  *)
(* two records of what was observed: aok, no assert of the code has        *)
(* failed; bok, every write went into the bucket of c1.                    *)

\* The slots of SA that belong to the suffixes starting with c.
InBucket(bk, c, pos) ==
  /\ c \in DOMAIN bk.cnt
  /\ bk.lo[c] <= pos
  /\ pos < bk.lo[c] + bk.cnt[c]

\* The cursor of the bucket that is left is not saved.
SwitchBucket_Forget(s, B, c0) ==
  IF c0 # s.c1
  THEN [s EXCEPT !.b = Rd(s.mem, B, c0), !.c1 = c0]
  ELSE s

\* if ((c0 = chr(j)) != c1) { B[c1] = b - SA; b = SA + B[c1 = c0]; }
SwitchBucket(s, B, c0) ==
  IF c0 # s.c1
  THEN LET m1 == Wr(s.mem, B, s.c1, s.b)
       IN  [s EXCEPT !.mem = m1, !.b = Rd(m1, B, c0), !.c1 = c0]
  ELSE s

\* *b++ = v
PutUp(s, bk, v) ==
  [s EXCEPT !.mem = Wr(s.mem, SAp(0), s.b, v), !.b = s.b + 1,
            !.bok = s.bok /\ InBucket(bk, s.c1, s.b)]

\* *--b = v
PutDown(s, bk, v) ==
  [s EXCEPT !.mem = Wr(s.mem, SAp(0), s.b - 1, v), !.b = s.b - 1,
            !.bok = s.bok /\ InBucket(bk, s.c1, s.b - 1)]

ScanState(m, b, c1, aok, bok) == [mem |-> m, b |-> b, c1 |-> c1, aok |-> aok, bok |-> bok]

-----------------------------------------------------------------------------
(* sortLMS1. *)

SortLMS1_L(T, B, bk, cs, i, s) ==
  LET j == Rd(s.mem, SAp(0), i)
  IN  IF 0 < j
      THEN LET a1 == Chr(s.mem, T, cs, j) >= Chr(s.mem, T, cs, j + 1)
               s1 == SwitchBucket(s, B, Chr(s.mem, T, cs, j))
               a2 == i < s1.b
               j1 == j - 1
               s2 == PutUp(s1, bk,
                           IF Chr(s1.mem, T, cs, j1) < s1.c1 THEN Not(j1) ELSE j1)
           IN  [s2 EXCEPT !.mem = Wr(s2.mem, SAp(0), i, 0), !.aok = s.aok /\ a1 /\ a2]
      ELSE IF j < 0
           THEN [s EXCEPT !.mem = Wr(s.mem, SAp(0), i, Not(j))]
           ELSE s

SortLMS1_S(T, B, bk, cs, i, s) ==
  LET j == Rd(s.mem, SAp(0), i)
  IN  IF 0 < j
      THEN LET a1 == Chr(s.mem, T, cs, j) <= Chr(s.mem, T, cs, j + 1)
               s1 == SwitchBucket(s, B, Chr(s.mem, T, cs, j))
               a2 == s1.b <= i
               j1 == j - 1
               s2 == PutDown(s1, bk,
                             IF Chr(s1.mem, T, cs, j1) > s1.c1 THEN Not(j1 + 1) ELSE j1)
           IN  [s2 EXCEPT !.mem = Wr(s2.mem, SAp(0), i, 0), !.aok = s.aok /\ a1 /\ a2]
      ELSE s

\* b = SA + B[c1 = chr(j = n - 1)]; --j; *b++ = (chr(j) < c1) ? ~j : j;
SortLMS1_Seed(T, B, bk, n, cs, m) ==
  PutUp(ScanState(m, Rd(m, B, Chr(m, T, cs, n - 1)), Chr(m, T, cs, n - 1), TRUE, TRUE),
        bk, IF Chr(m, T, cs, n - 2) < Chr(m, T, cs, n - 1) THEN Not(n - 2) ELSE n - 2)

SortLMS1(T, C, B, n, k, cs, m0) ==
  Let(Buckets(m0, T, n, cs), LAMBDA bk :
  Let(IF C = B THEN GetCounts(m0, T, C, n, k, cs) ELSE m0, LAMBDA m1 :
  Let(ForUp(LAMBDA i, s : SortLMS1_L(T, B, bk, cs, i, s), 0, n,
            SortLMS1_Seed(T, B, bk, n, cs, GetBuckets(m1, C, B, k, FALSE))), LAMBDA sl :
  Let(IF C = B THEN GetCounts(sl.mem, T, C, n, k, cs) ELSE sl.mem, LAMBDA m3 :
  Let(GetBuckets(m3, C, B, k, TRUE), LAMBDA m4 :
  Let(ForDown(LAMBDA i, s : SortLMS1_S(T, B, bk, cs, i, s), 0, n,
              ScanState(m4, Rd(m4, B, 0), 0, sl.aok, sl.bok)), LAMBDA ss :
    [mem |-> ss.mem, aok |-> ss.aok, bok |-> ss.bok,
     cok |-> IsHistogram(m1, C, k, bk) /\ IsHistogram(m3, C, k, bk)]))))))

-----------------------------------------------------------------------------
(* postProcLMS1. *)

\* for (i = 0; (p = SA[i]) < 0; ++i) { SA[i] = ~p; assert((i + 1) < n); }
\* run is FALSE once the loop has ended, and i is then where it ended.
Compact1_Head(n, i, s) ==
  IF ~s.run THEN s
  ELSE LET p == Rd(s.mem, SAp(0), i)
       IN  IF p < 0
           THEN [s EXCEPT !.mem = Wr(s.mem, SAp(0), i, Not(p)), !.i = i + 1,
                          !.aok = s.aok /\ ((i + 1) < n)]
           ELSE [s EXCEPT !.run = FALSE, !.i = i]

\* for (j = i, ++i;; ++i) { assert(i < n); if ((p = SA[i]) < 0) { ... } }
Compact1_Tail(m, i, s) ==
  IF ~s.run THEN s
  ELSE LET p == Rd(s.mem, SAp(0), i)
       IN  IF p < 0
           THEN [s EXCEPT !.mem = Wr(Wr(s.mem, SAp(0), s.j, Not(p)), SAp(0), i, 0),
                          !.j = s.j + 1, !.run = (s.j + 1 # m)]
           ELSE s

\* SA[m + ((i + 1) >> 1)] = j - i; j = i + 1;
StoreLength(m, i, c1, u) ==
  [mem |-> Wr(u.mem, SAp(0), m + ((i + 1) \div 2), u.j - i), j |-> i + 1]

\* The comparison does not stop at the end of the text.
NameLMS1_NoEnd(T, n, m, cs, i, s) ==
  LET p    == Rd(s.mem, SAp(0), i)
      plen == Rd(s.mem, SAp(0), m + (p \div 2))
      same == /\ plen = s.qlen
              /\ \A j \in 0 .. plen - 1 :
                   Chr(s.mem, T, cs, p + j) = Chr(s.mem, T, cs, s.q + j)
      name == IF same THEN s.name ELSE s.name + 1
  IN  [mem  |-> Wr(s.mem, SAp(0), m + (p \div 2), name),
       name |-> name,
       q    |-> IF same THEN s.q ELSE p,
       qlen |-> IF same THEN s.qlen ELSE plen]

NameLMS1(T, n, m, cs, i, s) ==
  LET p    == Rd(s.mem, SAp(0), i)
      plen == Rd(s.mem, SAp(0), m + (p \div 2))
      same == /\ plen = s.qlen
              /\ (s.q + plen) < n
              /\ \A j \in 0 .. plen - 1 :
                   Chr(s.mem, T, cs, p + j) = Chr(s.mem, T, cs, s.q + j)
      name == IF same THEN s.name ELSE s.name + 1
  IN  [mem  |-> Wr(s.mem, SAp(0), m + (p \div 2), name),
       name |-> name,
       q    |-> IF same THEN s.q ELSE p,
       qlen |-> IF same THEN s.qlen ELSE plen]

PostProcLMS1(T, n, m, cs, m0) ==
  Let(ForUp(LAMBDA i, s : Compact1_Head(n, i, s), 0, n,
            [mem |-> m0, i |-> 0, run |-> TRUE, aok |-> 0 < n]), LAMBDA h :
  Let(IF h.i < m
      THEN ForUp(LAMBDA i, s : Compact1_Tail(m, i, s), h.i + 1, n,
                 [mem |-> h.mem, j |-> h.i, run |-> TRUE])
      ELSE [mem |-> h.mem, j |-> h.i, run |-> FALSE], LAMBDA t :
  Let(ForUp(LAMBDA i, s : NameLMS1(T, n, m, cs, i, s), 0, m,
            [mem  |-> LMSScan(LAMBDA i, c1, u : StoreLength(m, i, c1, u), T, n, cs,
                              [mem |-> t.mem, j |-> n - 1]).mem,
             name |-> 0, q |-> n, qlen |-> 0]), LAMBDA nm :
    [mem |-> nm.mem, name |-> nm.name, aok |-> h.aok /\ ~h.run /\ ~t.run])))

-----------------------------------------------------------------------------
(* LMSsort2.  The scan state also holds the generation counter d.          *)

\* Every entry is flagged as the first of its generation.
Generation_Always(m, D, n, t, d, j) == [mem |-> Wr(m, D, t, d), j |-> j + n]

\* if (D[t] != d) { j += n; D[t] = d; }  gives the memory and the new j.
Generation(m, D, n, t, d, j) ==
  IF Rd(m, D, t) # d
  THEN [mem |-> Wr(m, D, t, d), j |-> j + n]
  ELSE [mem |-> m, j |-> j]

LMSsort2_L(T, B, D, bk, n, cs, i, s) ==
  LET j0 == Rd(s.mem, SAp(0), i)
  IN  IF 0 < j0
      THEN LET d  == IF n <= j0 THEN s.d + 1 ELSE s.d
               j  == IF n <= j0 THEN j0 - n ELSE j0
               a1 == Chr(s.mem, T, cs, j) >= Chr(s.mem, T, cs, j + 1)
               c0 == Chr(s.mem, T, cs, j)
               s1 == SwitchBucket(s, B, c0)
               a2 == i < s1.b
               j1 == j - 1
               t  == (c0 * 2) + (IF Chr(s1.mem, T, cs, j1) < s1.c1 THEN 1 ELSE 0)
               g  == Generation(s1.mem, D, n, t, d, j1)
               s2 == PutUp([s1 EXCEPT !.mem = g.mem], bk,
                           IF t % 2 = 1 THEN Not(g.j) ELSE g.j)
           IN  [s2 EXCEPT !.mem = Wr(s2.mem, SAp(0), i, 0), !.d = d,
                          !.aok = s.aok /\ a1 /\ a2]
      ELSE IF j0 < 0
           THEN [s EXCEPT !.mem = Wr(s.mem, SAp(0), i, Not(j0))]
           ELSE s

\* Lines 219-228: the flag of each run moves from its first to its last
\* entry.  The inner loop for (j = i - 1; SA[j] < n; --j) is the part of the
\* pass made with seek set; it ends at the entry it clears, where i = j.
LMSsort2_Mid(n, i, s) ==
  LET v == Rd(s.mem, SAp(0), i)
  IN  IF s.seek
      THEN IF v < n THEN s
           ELSE [mem |-> Wr(s.mem, SAp(0), i, v - n), seek |-> FALSE]
      ELSE IF (0 < v) /\ (v < n)
           THEN [mem |-> Wr(s.mem, SAp(0), i, v + n), seek |-> TRUE]
           ELSE s

LMSsort2_S(T, B, D, bk, n, cs, i, s) ==
  LET j0 == Rd(s.mem, SAp(0), i)
  IN  IF 0 < j0
      THEN LET d  == IF n <= j0 THEN s.d + 1 ELSE s.d
               j  == IF n <= j0 THEN j0 - n ELSE j0
               a1 == Chr(s.mem, T, cs, j) <= Chr(s.mem, T, cs, j + 1)
               c0 == Chr(s.mem, T, cs, j)
               s1 == SwitchBucket(s, B, c0)
               a2 == s1.b <= i
               j1 == j - 1
               t  == (c0 * 2) + (IF Chr(s1.mem, T, cs, j1) > s1.c1 THEN 1 ELSE 0)
               g  == Generation(s1.mem, D, n, t, d, j1)
               s2 == PutDown([s1 EXCEPT !.mem = g.mem], bk,
                             IF t % 2 = 1 THEN Not(g.j + 1) ELSE g.j)
           IN  [s2 EXCEPT !.mem = Wr(s2.mem, SAp(0), i, 0), !.d = d,
                          !.aok = s.aok /\ a1 /\ a2]
      ELSE s

\* b = SA + B[c1 = chr(j = n - 1)]; --j; t = (chr(j) < c1); j += n;
\* *b++ = (t & 1) ? ~j : j;
LMSsort2_Seed(T, C, B, bk, n, cs, m) ==
  PutUp([mem |-> m, b |-> Rd(m, B, Chr(m, T, cs, n - 1)), c1 |-> Chr(m, T, cs, n - 1),
         d |-> 0, aok |-> C # B, bok |-> TRUE],
        bk, IF Chr(m, T, cs, n - 2) < Chr(m, T, cs, n - 1)
            THEN Not(n - 2 + n) ELSE n - 2 + n)

LMSsort2(T, C, B, D, n, k, cs, m0) ==
  Let(Buckets(m0, T, n, cs), LAMBDA bk :
  Let(ForUp(LAMBDA i, s : LMSsort2_L(T, B, D, bk, n, cs, i, s), 0, n,
            LMSsort2_Seed(T, C, B, bk, n, cs, GetBuckets(m0, C, B, k, FALSE))), LAMBDA sl :
  Let(ForDown(LAMBDA i, s : LMSsort2_Mid(n, i, s), 0, n,
              [mem |-> sl.mem, seek |-> FALSE]), LAMBDA md :
  Let(GetBuckets(md.mem, C, B, k, TRUE), LAMBDA m4 :
  Let(ForDown(LAMBDA i, s : LMSsort2_S(T, B, D, bk, n, cs, i, s), 0, n,
              [mem |-> m4, b |-> Rd(m4, B, 0), c1 |-> 0, d |-> sl.d + 1,
               aok |-> sl.aok /\ ~md.seek, bok |-> sl.bok]), LAMBDA ss :
    [mem |-> ss.mem, aok |-> ss.aok, bok |-> ss.bok,
     cok |-> IsHistogram(m0, C, k, bk) /\ IsHistogram(md.mem, C, k, bk)])))))

-----------------------------------------------------------------------------
(* postProcLMS2. *)

Compact2_Head(n, i, s) ==
  IF ~s.run THEN s
  ELSE LET j == Rd(s.mem, SAp(0), i)
       IN  IF j < 0
           THEN [s EXCEPT !.mem = Wr(s.mem, SAp(0), i, Not(j)), !.i = i + 1,
                          !.name = IF n <= Not(j) THEN s.name + 1 ELSE s.name,
                          !.aok = s.aok /\ ((i + 1) < n)]
           ELSE [s EXCEPT !.run = FALSE, !.i = i]

Compact2_Tail(n, m, i, s) ==
  IF ~s.run THEN s
  ELSE LET j == Rd(s.mem, SAp(0), i)
       IN  IF j < 0
           THEN [s EXCEPT !.mem = Wr(Wr(s.mem, SAp(0), s.d, Not(j)), SAp(0), i, 0),
                          !.name = IF n <= Not(j) THEN s.name + 1 ELSE s.name,
                          !.d = s.d + 1, !.run = (s.d + 1 # m)]
           ELSE s

\* if (n <= (j = SA[i])) { j -= n; --d; }  SA[m + (j >> 1)] = d;
StoreName2(n, m, i, s) ==
  LET j0 == Rd(s.mem, SAp(0), i)
      j  == IF n <= j0 THEN j0 - n ELSE j0
      d  == IF n <= j0 THEN s.d - 1 ELSE s.d
  IN  [mem |-> Wr(s.mem, SAp(0), m + (j \div 2), d), d |-> d]

\* if (n <= (j = SA[i])) { j -= n; SA[i] = j; }
Unflag2(n, i, s) ==
  LET j == Rd(s, SAp(0), i)
  IN  IF n <= j THEN Wr(s, SAp(0), i, j - n) ELSE s

PostProcLMS2(n, m, m0) ==
  Let(ForUp(LAMBDA i, s : Compact2_Head(n, i, s), 0, n,
            [mem |-> m0, i |-> 0, name |-> 0, run |-> TRUE, aok |-> 0 < n]), LAMBDA h :
  Let(IF h.i < m
      THEN ForUp(LAMBDA i, s : Compact2_Tail(n, m, i, s), h.i + 1, n,
                 [mem |-> h.mem, d |-> h.i, name |-> h.name, run |-> TRUE])
      ELSE [mem |-> h.mem, d |-> h.i, name |-> h.name, run |-> FALSE], LAMBDA t :
    [mem  |-> IF t.name < m
              THEN ForDown(LAMBDA i, s : StoreName2(n, m, i, s), 0, m,
                           [mem |-> t.mem, d |-> t.name + 1]).mem
              ELSE ForUp(LAMBDA i, s : Unflag2(n, i, s), 0, m, t.mem),
     name |-> t.name,
     aok  |-> h.aok /\ ~h.run /\ ~t.run]))

-----------------------------------------------------------------------------
(* induceSA. *)

InduceSA_L(T, B, bk, cs, i, s) ==
  LET j0 == Rd(s.mem, SAp(0), i)
      s0 == [s EXCEPT !.mem = Wr(s.mem, SAp(0), i, Not(j0))]
  IN  IF 0 < j0
      THEN LET j  == j0 - 1
               a1 == Chr(s0.mem, T, cs, j) >= Chr(s0.mem, T, cs, j + 1)
               s1 == SwitchBucket(s0, B, Chr(s0.mem, T, cs, j))
               a2 == i < s1.b
               s2 == PutUp(s1, bk,
                           IF (0 < j) /\ (Chr(s1.mem, T, cs, j - 1) < s1.c1)
                           THEN Not(j) ELSE j)
           IN  [s2 EXCEPT !.aok = s.aok /\ a1 /\ a2]
      ELSE s0

\* The entries that are not induced from keep their tag.
InduceSA_S_Tagged(T, B, bk, cs, i, s) ==
  LET j0 == Rd(s.mem, SAp(0), i)
  IN  IF 0 < j0
      THEN LET j  == j0 - 1
               a1 == Chr(s.mem, T, cs, j) <= Chr(s.mem, T, cs, j + 1)
               s1 == SwitchBucket(s, B, Chr(s.mem, T, cs, j))
               a2 == s1.b <= i
               s2 == PutDown(s1, bk,
                             IF (j = 0) \/ (Chr(s1.mem, T, cs, j - 1) > s1.c1)
                             THEN Not(j) ELSE j)
           IN  [s2 EXCEPT !.aok = s.aok /\ a1 /\ a2]
      ELSE s

InduceSA_S(T, B, bk, cs, i, s) ==
  LET j0 == Rd(s.mem, SAp(0), i)
  IN  IF 0 < j0
      THEN LET j  == j0 - 1
               a1 == Chr(s.mem, T, cs, j) <= Chr(s.mem, T, cs, j + 1)
               s1 == SwitchBucket(s, B, Chr(s.mem, T, cs, j))
               a2 == s1.b <= i
               s2 == PutDown(s1, bk,
                             IF (j = 0) \/ (Chr(s1.mem, T, cs, j - 1) > s1.c1)
                             THEN Not(j) ELSE j)
           IN  [s2 EXCEPT !.aok = s.aok /\ a1 /\ a2]
      ELSE [s EXCEPT !.mem = Wr(s.mem, SAp(0), i, Not(j0))]

\* j = n - 1; b = SA + B[c1 = chr(j)];
\* *b++ = ((0 < j) && (chr(j - 1) < c1)) ? ~j : j;
InduceSA_Seed(T, B, bk, n, cs, m) ==
  PutUp(ScanState(m, Rd(m, B, Chr(m, T, cs, n - 1)), Chr(m, T, cs, n - 1), TRUE, TRUE),
        bk, IF (0 < n - 1) /\ (Chr(m, T, cs, n - 2) < Chr(m, T, cs, n - 1))
            THEN Not(n - 1) ELSE n - 1)

InduceSA(T, C, B, n, k, cs, m0) ==
  Let(Buckets(m0, T, n, cs), LAMBDA bk :
  Let(IF C = B THEN GetCounts(m0, T, C, n, k, cs) ELSE m0, LAMBDA m1 :
  Let(ForUp(LAMBDA i, s : InduceSA_L(T, B, bk, cs, i, s), 0, n,
            InduceSA_Seed(T, B, bk, n, cs, GetBuckets(m1, C, B, k, FALSE))), LAMBDA sl :
  Let(IF C = B THEN GetCounts(sl.mem, T, C, n, k, cs) ELSE sl.mem, LAMBDA m3 :
  Let(GetBuckets(m3, C, B, k, TRUE), LAMBDA m4 :
  Let(ForDown(LAMBDA i, s : InduceSA_S(T, B, bk, cs, i, s), 0, n,
              ScanState(m4, Rd(m4, B, 0), 0, sl.aok, sl.bok)), LAMBDA ss :
    [mem |-> ss.mem, aok |-> ss.aok, bok |-> ss.bok,
     cok |-> IsHistogram(m1, C, k, bk) /\ IsHistogram(m3, C, k, bk)]))))))

-----------------------------------------------------------------------------
(* computeSA, lines 439-478: the LMS substrings are sorted and named.      *)
(* okD says whether the malloc of D succeeds.  c is the record chk.        *)

And3(c, aok, bok, cok) ==
  [c EXCEPT !.aok = @ /\ aok, !.bok = @ /\ bok, !.cok = @ /\ cok]

\* j += C[i]; if (B[i] != j) { assert(SA[B[i]] != 0); SA[B[i]] += n; }
\* D[i] = D[i + k] = 0;
FlagFirst(C, B, D, n, k, i, s) ==
  LET j  == s.j + Rd(s.mem, C, i)
      bi == Rd(s.mem, B, i)
      m1 == IF bi # j
            THEN Wr(s.mem, SAp(0), bi, Rd(s.mem, SAp(0), bi) + n)
            ELSE s.mem
  IN  [mem |-> Wr(Wr(m1, D, i + k, 0), D, i, 0), j |-> j,
       aok |-> s.aok /\ ((bi # j) => (Rd(s.mem, SAp(0), bi) # 0))]

\* Lines 454-465: LMSsort2 and postProcLMS2 with D at a.p, in the memory a.
SortLMS2(f, a, c) ==
  Let(ForUp(LAMBDA i, s : FlagFirst(f.C, f.B, a.p, f.n, f.k, i, s), 0, f.k,
            [mem |-> Wr(a.mem, f.B, Chr(a.mem, f.T, f.cs, f.j + 1),
                        Rd(a.mem, f.B, Chr(a.mem, f.T, f.cs, f.j + 1)) + 1),
             j   |-> 0,
             aok |-> (f.j + 1) < f.n]), LAMBDA fl :
  Let(LMSsort2(f.T, f.C, f.B, a.p, f.n, f.k, f.cs, fl.mem), LAMBDA r :
  Let(PostProcLMS2(f.n, f.m, r.mem), LAMBDA pp :
    [h   |-> FreeIf(Has(f.flags, 16), [mem |-> pp.mem, heap |-> a.heap], a.p),
     c   |-> And3(c, fl.aok /\ r.aok /\ pp.aok, r.bok, r.cok),
     f   |-> [f EXCEPT !.D = a.p, !.name = pp.name, !.pc = "reduce"],
     ret |-> 0])))

Stage1Sort(f, h, c, okD) ==
  IF 1 < f.m
  THEN IF Has(f.flags, 16) \/ Has(f.flags, 32)
       THEN Let(IF Has(f.flags, 16) THEN Malloc(h, f.k * 2, okD)
                ELSE [mem |-> h.mem, heap |-> h.heap,
                      p |-> Ptr(f.B.blk, f.B.off - f.k * 2)], LAMBDA a :
              IF a.p = NULL
              THEN [h   |-> FreeIf(Has(f.flags, 2),
                                   FreeIf(Has(f.flags, 1) \/ Has(f.flags, 4),
                                          [mem |-> a.mem, heap |-> a.heap], f.C),
                                   f.B),
                    c |-> c, f |-> f, ret |-> 0 - 2]
              ELSE SortLMS2(f, a, c))
       ELSE Let(SortLMS1(f.T, f.C, f.B, f.n, f.k, f.cs, h.mem), LAMBDA r :
            Let(PostProcLMS1(f.T, f.n, f.m, f.cs, r.mem), LAMBDA pp :
              [h   |-> [h EXCEPT !.mem = pp.mem],
               c   |-> And3(c, r.aok /\ pp.aok, r.bok, r.cok),
               f   |-> [f EXCEPT !.name = pp.name, !.pc = "reduce"],
               ret |-> 0]))
  ELSE IF f.m = 1
       THEN [h   |-> [h EXCEPT !.mem = Wr(h.mem, SAp(0), f.b, f.j + 1)],
             c |-> c, f |-> [f EXCEPT !.name = 1, !.pc = "reduce"], ret |-> 0]
       ELSE [h |-> h, c |-> c, f |-> [f EXCEPT !.name = 0, !.pc = "reduce"], ret |-> 0]

-----------------------------------------------------------------------------
(* computeSA, lines 480-504: Stage 2 up to the recursive call. *)

NewFrame(T, n, k, fs, cs) ==
  [T |-> T, n |-> n, k |-> k, fs |-> fs, cs |-> cs, C |-> NULL, B |-> NULL,
   D |-> NULL, RA |-> NULL, flags |-> 0, m |-> 0, name |-> 0, newfs |-> 0,
   b |-> 0 - 1, j |-> 0, pc |-> "alloc"]

\* C is never kept through the recursion: it is always recomputed.
ReducedSlack_Recount(f) ==
  [newfs |-> (f.n + f.fs) - (f.m * 2),
   flags |-> IF ~Has(f.flags, 1) /\ ~Has(f.flags, 4) THEN Or(f.flags, 8) ELSE f.flags]

\* newfs and flags as lines 489-496 leave them.
ReducedSlack(f) ==
  LET newfs == (f.n + f.fs) - (f.m * 2)
  IN  IF ~Has(f.flags, 1) /\ ~Has(f.flags, 4) /\ ~Has(f.flags, 8)
      THEN IF (f.k + f.name) <= newfs
           THEN [newfs |-> newfs - f.k, flags |-> f.flags]
           ELSE [newfs |-> newfs, flags |-> Or(f.flags, 8)]
      ELSE [newfs |-> newfs, flags |-> f.flags]

\* The names are gathered as they are, from 1 on.
GatherNames_Raw(RA, i, s) ==
  LET v == Rd(s.mem, SAp(0), i)
  IN  IF v # 0 THEN [mem |-> Wr(s.mem, RA, s.j, v), j |-> s.j - 1] ELSE s

\* if (SA[i] != 0) { RA[j--] = SA[i] - 1; }
GatherNames(RA, i, s) ==
  LET v == Rd(s.mem, SAp(0), i)
  IN  IF v # 0 THEN [mem |-> Wr(s.mem, RA, s.j, v - 1), j |-> s.j - 1] ELSE s

\* The caller's record and memory at the recursive call, and the callee's
\* record; rec is FALSE when name = m and Stage 2 is skipped.
Stage2Reduce(f, h, c) ==
  IF f.name < f.m
  THEN Let(ReducedSlack(f), LAMBDA r :
       Let(FreeIf(Has(f.flags, 2), FreeIf(Has(f.flags, 4), h, f.C), f.B), LAMBDA h2 :
         [rec |-> TRUE,
          h   |-> [h2 EXCEPT !.mem =
                     ForDown(LAMBDA i, s : GatherNames(SAp(f.m + r.newfs), i, s),
                             f.m, f.m + (f.n \div 2),
                             [mem |-> h2.mem, j |-> f.m - 1]).mem],
          c   |-> And3(c, (f.n \div 2) <= (r.newfs + f.m), TRUE, TRUE),
          f   |-> [f EXCEPT !.flags = r.flags, !.newfs = r.newfs,
                            !.RA = SAp(f.m + r.newfs), !.pc = "wait"],
          callee |-> NewFrame(SAp(f.m + r.newfs), f.m, f.name, r.newfs, IntSize)]))
  ELSE [rec |-> FALSE, h |-> h, c |-> c, f |-> [f EXCEPT !.pc = "induce"],
        callee |-> f]

-----------------------------------------------------------------------------
(* computeSA, lines 504-547: after the recursive call returned res.        *)
(* ok1 and ok2 say whether the mallocs of lines 535 and 540 succeed.       *)

\* RA[j--] = i + 1;
ListLMS(RA, i, c1, u) == [mem |-> Wr(u.mem, RA, u.j, i + 1), j |-> u.j - 1]

\* Lines 510-533: SA[0..m) maps from ranks in the reduced string to positions.
SortedLMS(f, m0) ==
  ForUp(LAMBDA i, s : Wr(s, SAp(0), i, Rd(s, f.RA, Rd(s, SAp(0), i))), 0, f.m,
        LMSScan(LAMBDA i, c1, u : ListLMS(f.RA, i, c1, u), f.T, f.n, f.cs,
                [mem |-> m0, j |-> f.m - 1]).mem)

Stage2Resume(f, h, res, ok1, ok2) ==
  IF res # 0
  THEN [h |-> FreeIf(Has(f.flags, 1), h, f.C), f |-> f, ret |-> 0 - 2]
  ELSE Let([mem |-> SortedLMS(f, h.mem), heap |-> h.heap, p |-> f.C], LAMBDA h0 :
       Let(IF Has(f.flags, 4) THEN Malloc(h0, f.k, ok1) ELSE h0, LAMBDA a :
         IF Has(f.flags, 4) /\ (a.p = NULL)
         THEN [h |-> [mem |-> a.mem, heap |-> a.heap],
               f |-> [f EXCEPT !.C = a.p, !.B = a.p], ret |-> 0 - 2]
         ELSE Let(IF Has(f.flags, 4) THEN [f EXCEPT !.C = a.p, !.B = a.p] ELSE f,
                  LAMBDA f1 :
              Let(IF Has(f.flags, 2) THEN Malloc(a, f.k, ok2)
                  ELSE [mem |-> a.mem, heap |-> a.heap, p |-> f1.B], LAMBDA b :
                IF Has(f.flags, 2) /\ (b.p = NULL)
                THEN [h |-> FreeIf(Has(f.flags, 1), [mem |-> b.mem, heap |-> b.heap], f1.C),
                      f |-> f1, ret |-> 0 - 2]
                ELSE [h |-> [mem |-> b.mem, heap |-> b.heap],
                      f |-> [f1 EXCEPT !.B = b.p, !.pc = "induce"], ret |-> 0]))))

-----------------------------------------------------------------------------
(* computeSA, lines 549-581: Stage 3. *)

\* One sorted LMS suffix p = SA[i] goes to the end of its bucket: when its
\* character starts a new bucket, q = B[c0 = c1] and the slots down to q are
\* cleared first; then SA[--j] = p.  c0 = -1 before the first one.
PlaceSorted(T, B, cs, i, s) ==
  LET p  == Rd(s.mem, SAp(0), i)
      c1 == Chr(s.mem, T, cs, p)
      q  == Rd(s.mem, B, c1)
      z  == IF c1 # s.c0
            THEN [mem |-> ForDown(LAMBDA x, mm : Wr(mm, SAp(0), x, 0), q, s.j, s.mem),
                  j   |-> IF q < s.j THEN q ELSE s.j]
            ELSE [mem |-> s.mem, j |-> s.j]
  IN  [mem |-> Wr(z.mem, SAp(0), z.j - 1, p), j |-> z.j - 1, c0 |-> c1]

\* Lines 554-574: the sorted LMS suffixes go to the ends of their buckets.
PlaceAllSorted(f, m1) ==
  Let(ForDown(LAMBDA i, s : PlaceSorted(f.T, f.B, f.cs, i, s), 0, f.m,
              [mem |-> GetBuckets(m1, f.C, f.B, f.k, TRUE), j |-> f.n, c0 |-> 0 - 1]),
      LAMBDA pl : ForDown(LAMBDA x, mm : Wr(mm, SAp(0), x, 0), 0, pl.j, pl.mem))

Stage3(f, h, c) ==
  Let(IF Has(f.flags, 8) THEN GetCounts(h.mem, f.T, f.C, f.n, f.k, f.cs) ELSE h.mem,
      LAMBDA m1 :
  Let(InduceSA(f.T, f.C, f.B, f.n, f.k, f.cs,
               IF 1 < f.m THEN PlaceAllSorted(f, m1) ELSE m1), LAMBDA r :
    [h |-> FreeIf(Has(f.flags, 2),
                  FreeIf(Has(f.flags, 1) \/ Has(f.flags, 4),
                         [mem |-> r.mem, heap |-> h.heap], f.C),
                  f.B),
     c |-> And3(c, r.aok, r.bok,
                r.cok /\ ((1 < f.m) =>
                            IsHistogram(m1, f.C, f.k, Buckets(h.mem, f.T, f.n, f.cs))))]))

-----------------------------------------------------------------------------
(* The inputs: a text with its n, k and cs, and the slacks fs it is run     *)
(* with.  Small: every text of length 1..MaxLen over one and over two      *)
(* symbols and every text of length 1..MaxShort over three, as bytes.      *)
(* Wide: every text of length MaxLen over the two symbols 0 and            *)
(* MINBUCKETSIZE, as ints, with k = MINBUCKETSIZE + 1, which is no longer  *)
(* a small alphabet.  Then three single texts: one that recurses twice,    *)
(* one whose k is too large for a heap B, and one long enough for LMSsort2 *)
(* to run on a wide alphabet and to leave a wide alphabet to the recursion.*)

Texts(n, syms) == [0 .. n - 1 -> syms]

SmallInputs(k, len) ==
  UNION { { [n |-> n, k |-> k, cs |-> 1, T |-> t, fss |-> {0, k, n, 2 * n}] :
            t \in Texts(n, 0 .. k - 1) } :
          n \in 1 .. len }

WideK == MINBUCKETSIZE + 1

WideInputs ==
  { [n |-> MaxLen, k |-> WideK, cs |-> IntSize, T |-> t,
     fss |-> {0, WideK, WideK + MaxLen * 6, 2 * WideK}] :
    t \in Texts(MaxLen, {0, MINBUCKETSIZE}) }

\* 1 0 1 0 0 repeated: its reduced string has equal LMS substrings again.
DeepInput ==
  [n |-> 18, k |-> 2, cs |-> 1, T |-> [i \in 0 .. 17 |-> IF (i % 5) \in {0, 2} THEN 1 ELSE 0],
   fss |-> {0, 2, 18, 36}]

HugeK == MINBUCKETSIZE * 4 + 1

HugeKInput ==
  [n |-> 7, k |-> HugeK, cs |-> IntSize,
   T |-> [i \in 0 .. 6 |-> IF i % 2 = 0 THEN HugeK - 1 ELSE 0],
   fss |-> {HugeK}]

\* x 0 x' 0 x'' 0 ... with 259 symbols x of which two are equal: 258 LMS
\* substrings with 257 names.
LongInput ==
  [n |-> 518, k |-> WideK, cs |-> IntSize,
   T |-> [i \in 0 .. 517 |-> IF i % 2 = 0 THEN 1 + (((i \div 2) * 37) % MINBUCKETSIZE) ELSE 0],
   fss |-> {0, MINBUCKETSIZE, 4 * WideK}]

Inputs ==
  SmallInputs(1, MaxLen) \cup SmallInputs(2, MaxLen) \cup SmallInputs(3, MaxShort)
    \cup WideInputs \cup {DeepInput, HugeKInput, LongInput}

\* chk: aok, no assert of the code has failed; bok, every induced write went
\* into the bucket of its character; cok, C was the histogram of T at every
\* getBuckets; small, how many computeSA were entered with k <= MINBUCKETSIZE.
AllOk == [aok |-> TRUE, bok |-> TRUE, cok |-> TRUE, small |-> 0]

Init ==
  \E x \in Inputs :
    /\ inp = [n |-> x.n, k |-> x.k, cs |-> x.cs, fss |-> x.fss, fs |-> 0 - 1]
    /\ mem = <<x.T, <<>>>>
    /\ heap = <<"static", "static">>
    /\ stack = <<>>
    /\ rv = 0
    /\ chk = AllOk
    /\ outs = {}
    /\ steps = 0

Top == stack[Len(stack)]

At(pc) == (stack # <<>>) /\ (Top.pc = pc)

H == [mem |-> mem, heap |-> heap]

\* The running computeSA goes on with record f.
Go(h, c, f) ==
  /\ mem' = h.mem
  /\ heap' = h.heap
  /\ chk' = c
  /\ stack' = [stack EXCEPT ![Len(stack)] = f]
  /\ steps' = steps + 1
  /\ UNCHANGED <<inp, rv, outs>>

\* The running computeSA returns val: to its caller, or to the driver, which
\* records the slack, the workspace flags, the result and the array.
Ret(h, c, val) ==
  /\ mem' = h.mem
  /\ heap' = h.heap
  /\ chk' = c
  /\ rv' = val
  /\ IF Len(stack) = 1
     THEN /\ stack' = <<>>
          /\ outs' = outs \cup
               { [fs |-> inp.fs, flags |-> Top.flags, ret |-> val,
                  sa |-> IF val = 0 THEN [i \in 0 .. inp.n - 1 |-> h.mem[SAB][i]]
                         ELSE <<>>] }
     ELSE /\ stack' = [SubSeq(stack, 1, Len(stack) - 1)
                         EXCEPT ![Len(stack) - 1].pc = "resume"]
          /\ outs' = outs
  /\ steps' = steps + 1
  /\ UNCHANGED inp

CountSmall(c, k) == [c EXCEPT !.small = IF k <= MINBUCKETSIZE THEN @ + 1 ELSE @]

\* The driver calls computeSA(T, SA, fs, n, k, cs) on a fresh SA of n + fs ints,
\* with the slacks of the input in growing order, until a call fails.
Call(fs) ==
  /\ stack = <<>>
  /\ rv = 0
  /\ fs \in inp.fss
  /\ \A x \in inp.fss : (x < fs) <=> (\E o \in outs : o.fs = x)
  /\ inp' = [inp EXCEPT !.fs = fs]
  /\ mem' = <<mem[TXT], FreshBlock(inp.n + fs)>>
  /\ heap' = <<"static", "static">>
  /\ stack' = <<NewFrame(Ptr(TXT, 0), inp.n, inp.k, fs, inp.cs)>>
  /\ rv' = 0
  /\ chk' = CountSmall(AllOk, inp.k)
  /\ steps' = 0
  /\ UNCHANGED outs

\* What a step of computeSA that can fail leaves: it goes on or returns.
Done(r, c) == IF r.ret = 0 THEN Go(r.h, c, r.f) ELSE Ret(r.h, c, r.ret)

Enter ==
  /\ At("alloc")
  /\ \E ok1, ok2 \in BOOLEAN : Done(AllocWorkspace(Top, H, ok1, ok2), chk)

FoundLMS(r) == Go([mem |-> r.mem, heap |-> heap], And3(chk, TRUE, TRUE, r.cok), r.f)

FindLMS ==
  /\ At("stage1")
  /\ FoundLMS(Stage1(Top, mem))

Sorted(r) == Done(r, r.c)

\* D is allocated only when LMSsort2 runs with flags & 16.
SortLMS ==
  /\ At("sort")
  /\ \E okD \in (IF (1 < Top.m) /\ Has(Top.flags, 16) THEN BOOLEAN ELSE {TRUE}) :
       Sorted(Stage1Sort(Top, H, chk, okD))

Reduced(r) ==
  IF r.rec
  THEN /\ mem' = r.h.mem
       /\ heap' = r.h.heap
       /\ chk' = CountSmall(r.c, r.callee.k)
       /\ stack' = Append([stack EXCEPT ![Len(stack)] = r.f], r.callee)
       /\ steps' = steps + 1
       /\ UNCHANGED <<inp, rv, outs>>
  ELSE Go(r.h, r.c, r.f)

Reduce ==
  /\ At("reduce")
  /\ Reduced(Stage2Reduce(Top, H, chk))

Resume ==
  /\ At("resume")
  /\ \E ok1, ok2 \in BOOLEAN : Done(Stage2Resume(Top, H, rv, ok1, ok2), chk)

Induced(r) == Ret(r.h, r.c, 0)

Induce ==
  /\ At("induce")
  /\ Induced(Stage3(Top, H, chk))

Next ==
  \/ \E fs \in inp.fss : Call(fs)
  \/ Enter
  \/ FindLMS
  \/ SortLMS
  \/ Reduce
  \/ Resume
  \/ Induce

Spec == Init /\ [][Next]_vars

\* computeSA, once called, runs on until it returns.
Run == Enter \/ FindLMS \/ SortLMS \/ Reduce \/ Resume \/ Induce

\* A step of Run, seen from the step count alone: the steps of Next that
\* count a step are those of Run, and Run can take one whenever a record is
\* on the stack (Schedulable, below).
Tick == (stack # <<>>) /\ (steps' = steps + 1)

\* computeSA is sequential code: the step it is at is taken.
FairSpec == Spec /\ WF_steps(Tick)

-----------------------------------------------------------------------------
(* What the suffix array of a text is, from the definition. *)

Text == mem[TXT]

\* T[a..n) < T[b..n): at the first difference, or a proper prefix.
RECURSIVE SuffixLess(_, _, _, _)
SuffixLess(t, n, a, b) ==
  IF a = b THEN FALSE
  ELSE IF a >= n THEN TRUE
  ELSE IF b >= n THEN FALSE
  ELSE IF t[a] # t[b] THEN t[a] < t[b]
  ELSE SuffixLess(t, n, a + 1, b + 1)

\* sa[0..n) is the suffix array of t[0..n).
IsSuffixArray(t, n, sa) ==
  /\ DOMAIN sa = 0 .. n - 1
  /\ {sa[i] : i \in 0 .. n - 1} = 0 .. n - 1
  /\ \A i \in 0 .. n - 2 : SuffixLess(t, n, sa[i], sa[i + 1])

\* The outermost computeSA has been called and has returned.
Returned == (stack = <<>>) /\ (inp.fs >= 0)

Running == stack # <<>>

HeapBlocks == {b \in DOMAIN heap : b > SAB}

\* Some malloc of the current outermost call has failed.
Failed == \E b \in HeapBlocks : heap[b] = "failed"

\* The successful runs recorded so far.
Successes == {o \in outs : o.ret = 0}

-----------------------------------------------------------------------------
(* The text of an activation record, its L/S classification, its LMS       *)
(* positions and its LMS substrings, from their definitions.               *)

TextOf(m, f) == [i \in 0 .. f.n - 1 |-> Chr(m, f.T, f.cs, i)]

\* The set of S-type positions of t[0..n) when position n - 1 is S-type
\* (lastS) or L-type: i < n - 1 is S-type iff t[i] < t[i+1], or t[i] = t[i+1]
\* and i + 1 is S-type.
STypes(t, n, lastS) ==
  ForDown(LAMBDA i, s :
            [S |-> IF (IF i = n - 1 THEN lastS
                       ELSE (t[i] < t[i + 1]) \/ ((t[i] = t[i + 1]) /\ ((i + 1) \in s.S)))
                   THEN s.S \cup {i} ELSE s.S],
          0, n, [S |-> {}]).S

\* i > 0 is an LMS position iff i is S-type and i - 1 is L-type.
LMSOf(S, n) == {i \in 1 .. n - 1 : (i \in S) /\ ((i - 1) \notin S)}

LMSPositions(t, n, lastS) == LMSOf(STypes(t, n, lastS), n)

\* Where the LMS substring that starts at the LMS position p ends: at the
\* next LMS position, and the last one at n - 1.
SubEnd(P, n, p) ==
  IF \E q \in P : q > p
  THEN CHOOSE q \in P : (q > p) /\ (\A r \in P : (r > p) => (q <= r))
  ELSE n - 1

\* The LMS substring at p, character by character; with sentinel, the last
\* one is followed by an end mark that is no character.
LMSSubstring(t, P, n, p, sentinel) ==
  [x \in 0 .. (SubEnd(P, n, p) - p) + (IF sentinel /\ (\A q \in P : q <= p) THEN 1 ELSE 0) |->
     IF p + x < n THEN t[p + x] ELSE 0 - 1]

\* The LMS substrings of t, by position.
LMSSubstrings(t, n, sentinel) ==
  Let(LMSPositions(t, n, FALSE), LAMBDA P :
    [p \in P |-> LMSSubstring(t, P, n, p, sentinel)])

-----------------------------------------------------------------------------
(* The claims. *)

\* C1: every call of computeSA in which no allocation failed has returned 0,
\* and every call that returned 0 has left in SA[0..n) the suffix array of T:
\* a permutation of [0, n), without tags, in which each suffix is strictly
\* smaller than the next.
C1_SuffixArray ==
  /\ \A o \in outs : (o.ret = 0) => IsSuffixArray(Text, inp.n, o.sa)
  /\ (Returned /\ ~Failed) => (rv = 0)

\* A call that recursed has returned 0.
C1_Witness ==
  /\ Returned /\ ~Failed /\ (chk.small >= 2)
  /\ \E o \in Successes : o.fs = inp.fs

\* C2: any two successful runs on the same T, n, k, cs, whatever their fs and
\* so whatever their workspace and their LMS sort, leave the same SA[0..n).
C2_SlackIndependent == \A o1, o2 \in Successes : o1.sa = o2.sa

\* Three runs with three different workspace flags have succeeded.
C2_Witness == Cardinality({o.flags : o \in Successes}) >= 3

\* C3: no heap block is ever freed twice or freed without being allocated;
\* when the outermost computeSA has returned, every heap block it or its
\* recursive calls allocated has been freed; and if a malloc failed, it
\* has returned -2.
C3_FreedOnce ==
  /\ \A b \in HeapBlocks : heap[b] # "corrupt"
  /\ Returned => /\ \A b \in HeapBlocks : heap[b] \in {"freed", "failed"}
                 /\ Failed => (rv = 0 - 2)

\* A call has failed after two blocks had been allocated, and has freed them.
C3_Witness ==
  /\ Returned /\ Failed /\ (rv = 0 - 2)
  /\ Cardinality({b \in HeapBlocks : heap[b] = "freed"}) >= 2

\* C4, as stated: a call with k <= 256 and fs = 2n allocates nothing.
C4_NoHeap ==
  ((inp.k <= MINBUCKETSIZE) /\ (inp.fs = 2 * inp.n)) => (HeapBlocks = {})

\* The records of the computeSA that run with a small alphabet: those that
\* have not allocated yet, and those that have.
SmallEntering == {i \in DOMAIN stack : (stack[i].k <= MINBUCKETSIZE) /\ (stack[i].pc = "alloc")}

SmallEntered == {i \in DOMAIN stack : (stack[i].k <= MINBUCKETSIZE) /\ (stack[i].pc # "alloc")}

\* C4, amended: in a call with k <= 256 and fs = 2n >= k in which no malloc
\* fails, every computeSA with an alphabet of at most 256 symbols, the
\* outermost and the recursive ones, allocates its C on the heap and takes
\* its B, and its D if it has one, from SA; and these C are the only heap
\* blocks.
C4_OnlyC ==
  ((inp.k <= MINBUCKETSIZE) /\ (inp.fs = 2 * inp.n) /\ (inp.k <= inp.fs) /\ ~Failed) =>
    /\ \A i \in SmallEntered :
         /\ stack[i].C.blk > SAB
         /\ stack[i].B.blk = SAB
         /\ stack[i].D.blk \in {NULL.blk, SAB}
    /\ Cardinality(HeapBlocks) + Cardinality(SmallEntering) = chk.small

\* Such a call that used LMSsort2 and recursed has returned.
C4_Witness ==
  /\ Returned /\ ~Failed /\ (rv = 0)
  /\ (inp.k <= MINBUCKETSIZE) /\ (inp.fs = 2 * inp.n) /\ (inp.k <= inp.fs)
  /\ (chk.small >= 2) /\ (Cardinality(HeapBlocks) = chk.small)
  /\ \E o \in Successes : (o.fs = inp.fs) /\ Has(o.flags, 32)

\* A computeSA with record f was called by the one with record p as Stage 2
\* calls it, on an admissible and smaller problem.
Admissible(p, f) ==
  /\ (2 <= p.m) /\ (p.m <= (p.n \div 2))
  /\ (1 <= p.name) /\ (p.name < p.m)
  /\ p.newfs >= 0
  /\ (f.T = p.RA) /\ (f.n = p.m) /\ (f.k = p.name) /\ (f.fs = p.newfs) /\ (f.cs = IntSize)
  /\ (f.pc = "alloc") => \A i \in 0 .. f.n - 1 : Rd(mem, f.T, i) \in 0 .. f.k - 1

RecursionAdmissible ==
  \A i \in DOMAIN stack : (i > 1) => Admissible(stack[i - 1], stack[i])

\* Every record is at a position that has a step: the top one at a statement
\* of computeSA, the others at their recursive call.
Schedulable ==
  \A i \in DOMAIN stack :
    IF i = Len(stack)
    THEN stack[i].pc \in {"alloc", "stage1", "sort", "reduce", "resume", "induce"}
    ELSE stack[i].pc = "wait"

\* Each recursive call is on at most half its caller's length.
RECURSIVE Pow2(_)
Pow2(d) == IF d = 0 THEN 1 ELSE 2 * Pow2(d - 1)

DepthBounded == (stack # <<>>) => ((Top.n * Pow2(Len(stack) - 1)) <= inp.n)

\* C5: every recursive computeSA is called with 2 <= m <= n/2, 1 <= name < m,
\* newfs >= 0 and a reduced string whose elements are all in [0, name); the
\* depth of the recursion is at most log2 n; and every computeSA that is
\* running returns.
C5_Recursion ==
  /\ [](RecursionAdmissible /\ Schedulable /\ DepthBounded)
  /\ Running ~> Returned

\* A recursive call within a recursive call.
C5_Witness == (Len(stack) = 3) /\ (Top.pc = "alloc")

\* C6: no assert of sortLMS1, LMSsort2, induceSA or computeSA has failed (in
\* the L scans i < b - SA and chr(j) >= chr(j+1), in the S scans b - SA <= i
\* and chr(j) <= chr(j+1), LMSsort2 entered with C # B), and every induced
\* write went into the bucket of the character it was made for.
C6_Asserts == chk.aok /\ chk.bok

\* LMSsort2 has run inside a recursive call, and sortLMS1 at some level.
C6_Witness ==
  /\ At("reduce") /\ (Len(stack) = 2) /\ (Top.m > 1)
  /\ Has(Top.flags, 16) \/ Has(Top.flags, 32)

\* The name table of record f: after the LMS sort SA[0..m) holds the sorted LMS
\* positions, and SA[m + p/2] the name of the one at p (postProcLMS2 stores
\* the names only if it found fewer than m).
NameAt(m, f, p) == Rd(m, SAp(0), f.m + (p \div 2))

\* The i-th sorted LMS position; postProcLMS2 leaves its + n on those that
\* start a new name when it stores the names.
SortedAt(m, f, i) ==
  IF Rd(m, SAp(0), i) >= f.n THEN Rd(m, SAp(0), i) - f.n ELSE Rd(m, SAp(0), i)

NamesStored(f) == ~(Has(f.flags, 16) \/ Has(f.flags, 32)) \/ (f.name < f.m)

\* The names of f are names for the substrings sub (by LMS position): equal
\* names for equal substrings only, growing along SA[0..m), 1..name.
NamedBy(m, f, sub) ==
  /\ {SortedAt(m, f, i) : i \in 0 .. f.m - 1} = DOMAIN sub
  /\ f.name = Cardinality({sub[p] : p \in DOMAIN sub})
  /\ NamesStored(f) =>
       /\ \A p, q \in DOMAIN sub : (NameAt(m, f, p) = NameAt(m, f, q)) <=> (sub[p] = sub[q])
       /\ \A i \in 0 .. f.m - 2 :
            NameAt(m, f, SortedAt(m, f, i)) <= NameAt(m, f, SortedAt(m, f, i + 1))
       /\ {NameAt(m, f, p) : p \in DOMAIN sub} = 1 .. f.name

\* C7, as stated: after the LMS sort (m > 1) two LMS substrings of T have the
\* same name iff they are equal character by character and in length, the
\* names do not decrease along the sorted LMS positions, and name is the
\* number of different names.
C7_Names ==
  (At("reduce") /\ (Top.m > 1)) =>
    NamedBy(mem, Top, LMSSubstrings(TextOf(mem, Top), Top.n, FALSE))

\* C7, amended: the same, with the last LMS substring (the one that runs to
\* the end of T) taken with an end mark after it, so that it is equal to no
\* other and has a name of its own.
C7_NamesToEnd ==
  (At("reduce") /\ (Top.m > 1)) =>
    NamedBy(mem, Top, LMSSubstrings(TextOf(mem, Top), Top.n, TRUE))

\* postProcLMS1 has named LMS substrings of which two are equal.
C7_Witness ==
  /\ At("reduce") /\ (Top.m > 2) /\ (Top.name < Top.m)
  /\ ~(Has(Top.flags, 16) \/ Has(Top.flags, 32))

\* The reduced string of the caller p is at SA[off .. off + m), it is the
\* callee's text and newfs the callee's slack; and when the callee is entered
\* it holds equal values exactly for equal LMS substrings.
RankIn(P, p) == Cardinality({r \in P : r < p})

Reduces(m, RA, sub) ==
  \A p, q \in DOMAIN sub :
    (Rd(m, RA, RankIn(DOMAIN sub, p)) = Rd(m, RA, RankIn(DOMAIN sub, q))) <=> (sub[p] = sub[q])

ReducedAt(p, f, off, newfs) ==
  /\ (p.RA = SAp(off)) /\ (p.newfs = newfs)
  /\ (f.T = p.RA) /\ (f.n = p.m) /\ (f.fs = p.newfs)
  /\ (f.pc = "alloc") => Reduces(mem, p.RA, LMSSubstrings(TextOf(mem, p), p.n, TRUE))

\* C8, as stated: at every recursion the reduced string is at
\* SA[n+fs-m .. n+fs) and newfs = n + fs - 2m.
C8_Tail ==
  \A i \in DOMAIN stack : (i > 1) =>
    ReducedAt(stack[i - 1], stack[i],
              (stack[i - 1].n + stack[i - 1].fs) - stack[i - 1].m,
              (stack[i - 1].n + stack[i - 1].fs) - 2 * stack[i - 1].m)

\* C is in the tail of SA, apart from B, and k + name <= n + fs - 2m: the
\* recursion is kept out of C.
KeepsC(f) ==
  /\ (f.k > MINBUCKETSIZE) /\ (f.k <= f.fs)
  /\ (f.k <= f.fs - f.k) \/ (f.k <= MINBUCKETSIZE * 4)
  /\ (f.k + f.name) <= ((f.n + f.fs) - 2 * f.m)

Kept(f) == IF KeepsC(f) THEN f.k ELSE 0

\* C8, amended: the reduced string is at SA[m+newfs .. 2m+newfs), where newfs
\* is n + fs - 2m, less k when C is kept in the tail of SA.
C8_TailBelowC ==
  \A i \in DOMAIN stack : (i > 1) =>
    ReducedAt(stack[i - 1], stack[i],
              (stack[i - 1].n + stack[i - 1].fs) - stack[i - 1].m - Kept(stack[i - 1]),
              (stack[i - 1].n + stack[i - 1].fs) - 2 * stack[i - 1].m - Kept(stack[i - 1]))

\* A recursive call is entered below a C that is kept.
C8_Witness == (Len(stack) = 2) /\ (Top.pc = "alloc") /\ KeepsC(stack[1])

\* C9, as stated: m is the number of LMS positions when position n - 1 is
\* S-type.
C9_CountLastS ==
  At("sort") => (Top.m = Cardinality(LMSPositions(TextOf(mem, Top), Top.n, TRUE)))

\* C9, amended: m is the number of LMS positions when position n - 1 is
\* L-type (as it is before an end of text smaller than every character).
C9_CountLastL ==
  At("sort") => (Top.m = Cardinality(LMSPositions(TextOf(mem, Top), Top.n, FALSE)))

\* The scan of a recursive call has found LMS positions.
C9_Witness == At("sort") /\ (Len(stack) = 2) /\ (Top.m >= 2)

\* C10: at every getBuckets so far (in Stage 1, in sortLMS1, LMSsort2 and
\* induceSA, and in Stage 3) C[0..k) was the histogram of that level's T.
C10_Histogram == chk.cok

\* A call whose C was in the tail of SA and was counted again after the
\* recursion has returned.
C10_Witness ==
  /\ Returned /\ (rv = 0) /\ (inp.k > MINBUCKETSIZE)
  /\ \E o \in Successes : (o.fs = inp.fs) /\ Has(o.flags, 8) /\ ~Has(o.flags, 4)

=============================================================================
